---- MODULE Spec2Model ----
(***************************************************************************)
(* A model of the Prometheus query Context (pkg/prom/query.go) and of the  *)
(* Retry helper (pkg/util/retry/retry.go).                                 *)
(*                                                                         *)
(* Spec      the asynchronous entry points of one Context: every Query /   *)
(*           QueryRange call starts a unit (goroutine) running runQuery /  *)
(*           runQueryRange, which reports to the Context's collector and   *)
(*           sends on its own channel.                                     *)
(* SpecSync  the blocking entry points QuerySync / QueryRangeSync.         *)
(* SpecRetry one invocation of Retry, with the cancellation signal raised  *)
(*           by the environment at any moment.                             *)
(* SpecRequest the requests RawQuery / RawQueryRange build, for a Context   *)
(*           of any name, any configured offset and a running clock.       *)
(***************************************************************************)
EXTENDS Integers, Sequences, FiniteSets, TLC

VARIABLES
    units,           \* the goroutines started by the asynchronous entry points
    chans,           \* the QueryResultsChan values made so far
    batch,           \* arguments and return value of the QueryAll / ProfileQueryAll call
    errorCollector,  \* ctx.errorCollector
    syncRets,        \* what the QuerySync / QueryRangeSync calls returned, in call order
    rpc,             \* Retry: position in the function
    attempts,        \* Retry: the attempts argument
    delay,           \* Retry: the delay argument
    fPlan,           \* Retry: what f returns on each of its invocations
    cancelled,       \* Retry: ctx.Done() is closed
    cancelledAtCall, \* Retry: ctx.Done() was closed when Retry was called
    r,               \* Retry: loop counter
    d,               \* Retry: current delay
    result,          \* Retry: local result
    err,             \* Retry: local err
    ret,             \* Retry: the returned pair
    calls,           \* Retry: number of invocations of f so far
    sleeps,          \* Retry: the durations passed to time.Sleep so far
    name,            \* ctx.name
    promQueryOffset, \* the package variable promQueryOffset
    now,             \* what time.Now() returns, in ticks since the epoch
    requests         \* the calls of RawQuery / RawQueryRange so far, with the request each built

queryVars == <<units, chans, batch, errorCollector, syncRets>>

retryVars == <<rpc, attempts, delay, fPlan, cancelled, cancelledAtCall, r, d, result, err, ret, calls, sleeps>>

requestVars == <<name, promQueryOffset, now, requests>>

vars == <<units, chans, batch, errorCollector, syncRets, rpc, attempts, delay, fPlan, cancelled, cancelledAtCall, r, d, result, err, ret, calls, sleeps, name, promQueryOffset, now, requests>>

----------------------------------------------------------------------------
(* Bounds *)

\* units started on the Context in one behaviour
MaxUnits == 2

\* synchronous calls made on the Context in one behaviour
MaxSync == 2

\* the largest attempts argument Retry is called with
MaxAttempts == 3

\* width in bits of the signed integer standing for time.Duration (an int64 in the code)
DurationBits == 5

\* clock ticks in one second: times and durations are counted in ticks
TicksPerSecond == 2

\* the last clock reading of a behaviour
MaxNow == 6

\* direct calls of RawQuery / RawQueryRange in one behaviour
MaxRequests == 2

----------------------------------------------------------------------------
(* Values *)

\* the query texts the callers pass
Queries == {"up", "node_total"}

\* the profile label a caller of ProfileQuery / ProfileQueryRange passes
Labels == {"profile"}

\* Go's nil error
NilErr == [kind |-> "nil"]

\* Go's nil interface{} value (also a nil []*QueryResult)
GoNil == [type |-> "nil"]

\* a nil prometheus.Warnings
NoWarnings == <<>>

\* the warning text IsNoStoreAPIWarning matches
NoStoreAPIWarning == "No StoreAPIs matched for this query"

\* a warning text that is no store-partial-failure warning
SoftWarning == "partial response"

IsNoStoreAPIWarning(w) == w = NoStoreAPIWarning

(* JSON texts, as syntax trees. "invalid" stands for bytes that are no JSON. *)
JStr(s) == [j |-> "string", s |-> s]

JArr(items) == [j |-> "array", items |-> items]

JObj(members) == [j |-> "object", members |-> members]

JNull == [j |-> "null"]

JInvalid == [j |-> "invalid"]

\* the data member of a successful response
Payload == JObj("resultType" :> JStr("vector") @@ "result" :> JArr(<<>>))

\* {"status":"success","data":{...}}
BodyPlain == JObj("status" :> JStr("success") @@ "data" :> Payload)

\* {"status":"success","data":{...},"warnings":[ws...]}
BodyWarn(ws) == JObj("status" :> JStr("success") @@ "data" :> Payload @@ "warnings" :> JArr([i \in DOMAIN ws |-> JStr(ws[i])]))

\* {"status":"error","error":"..."}: well-formed, with no data to decode
BodyError == JObj("status" :> JStr("error") @@ "error" :> JStr("query timed out"))

Bodies == {JInvalid, JNull, BodyError, BodyPlain, BodyWarn(<<SoftWarning>>), BodyWarn(<<NoStoreAPIWarning>>), BodyWarn(<<SoftWarning, NoStoreAPIWarning>>)}

(* What http.NewRequest and ctx.Client.Do do with one request: the request  *)
(* cannot be built; Do fails without or with a response; Do answers.        *)
Responses ==
    {[kind |-> "build"], [kind |-> "net"], [kind |-> "netresp", status |-> 502], [kind |-> "http", status |-> 500, body |-> BodyPlain]}
    \cup {[kind |-> "http", status |-> 200, body |-> b] : b \in Bodies}

(* The responses the asynchronous units are given: a transport error, a     *)
(* result error, a plain success, a soft warning, a store-partial-failure   *)
(* warning.  The synchronous calls are given all of Responses.              *)
UnitResponses ==
    {[kind |-> "net"]}
    \cup {[kind |-> "http", status |-> 200, body |-> b] : b \in {BodyError, BodyPlain, BodyWarn(<<SoftWarning>>), BodyWarn(<<NoStoreAPIWarning>>)}}

----------------------------------------------------------------------------
(* The pure parts of query.go *)

(* json.Unmarshal(body, &toReturn) with toReturn an interface{}: objects    *)
(* decode to map[string]interface{}, arrays to []interface{}, strings to    *)
(* string, null to nil.                                                     *)
RECURSIVE GoValue(_)
GoValue(j) ==
    CASE j.j = "null" -> GoNil
      [] j.j = "string" -> [type |-> "string", v |-> j.s]
      [] j.j = "array" -> [type |-> "[]interface{}", v |-> [i \in DOMAIN j.items |-> GoValue(j.items[i])]]
      [] j.j = "object" -> [type |-> "map[string]interface{}", v |-> [k \in DOMAIN j.members |-> GoValue(j.members[k])]]

Unmarshal(body) ==
    IF body.j = "invalid"
    THEN [value |-> GoNil, err |-> [kind |-> "json"]]
    ELSE [value |-> GoValue(body), err |-> NilErr]

\* warningsFrom: the three type assertions, the last one to []string
warningsFrom(resultv) ==
    IF resultv.type = "map[string]interface{}"
    THEN IF "warnings" \in DOMAIN resultv.v
         THEN IF resultv.v["warnings"].type = "[]string"
              THEN resultv.v["warnings"].v
              ELSE NoWarnings
         ELSE NoWarnings
    ELSE NoWarnings

\* the first warning of ws that IsNoStoreAPIWarning matches (the loop returns at it)
FirstNoStore(ws) == ws[CHOOSE i \in DOMAIN ws : IsNoStoreAPIWarning(ws[i]) /\ \A k \in 1..(i - 1) : ~IsNoStoreAPIWarning(ws[k])]

\* RawQuery from http.NewRequest on: [body, err]
RawQuery(q, resp) ==
    CASE resp.kind = "build" -> [body |-> JNull, err |-> [kind |-> "NewRequest"]]
      [] resp.kind = "net" -> [body |-> JNull, err |-> [kind |-> "Errorf", format |-> "query error: '%s' fetching query '%s'", query |-> q]]
      [] resp.kind = "netresp" -> [body |-> JNull, err |-> [kind |-> "Errorf", format |-> "query error %d: '%s' fetching query '%s'", status |-> resp.status, query |-> q]]
      [] resp.kind = "http" ->
            IF resp.status < 200 \/ resp.status >= 300
            THEN [body |-> JNull, err |-> [kind |-> "CommErrorf", format |-> "%d (%s) URL: '%s', Request Headers: '%s', Headers: '%s', Body: '%s' Query: '%s'", status |-> resp.status, body |-> resp.body, query |-> q]]
            ELSE [body |-> resp.body, err |-> NilErr]

\* RawQueryRange from http.NewRequest on: [body, err]
RawQueryRange(q, resp) ==
    CASE resp.kind = "build" -> [body |-> JNull, err |-> [kind |-> "NewRequest"]]
      [] resp.kind = "net" -> [body |-> JNull, err |-> [kind |-> "Errorf", format |-> "Error: %s, Body: %s Query: %s", query |-> q]]
      [] resp.kind = "netresp" -> [body |-> JNull, err |-> [kind |-> "Errorf", format |-> "%d (%s) Headers: %s Error: %s Body: %s Query: %s", status |-> resp.status, query |-> q]]
      [] resp.kind = "http" ->
            IF resp.status < 200 \/ resp.status >= 300
            THEN [body |-> JNull, err |-> [kind |-> "CommErrorf", format |-> "%d (%s) Headers: %s, Body: %s Query: %s", status |-> resp.status, body |-> resp.body, query |-> q]]
            ELSE [body |-> resp.body, err |-> NilErr]

\* the part query and queryRange share, from json.Unmarshal on: [raw, warnings, err]
classify(q, body) ==
    LET u == Unmarshal(body)
        warnings == warningsFrom(u.value)
    IN  IF u.err # NilErr
        THEN [raw |-> GoNil, warnings |-> NoWarnings, err |-> [kind |-> "Errorf", format |-> "Unmarshal Error: %s\nQuery: %s", query |-> q]]
        ELSE IF \E i \in DOMAIN warnings : IsNoStoreAPIWarning(warnings[i])
             THEN [raw |-> GoNil, warnings |-> warnings, err |-> [kind |-> "CommErrorf", format |-> "Error: %s, Body: %s, Query: %s", warning |-> FirstNoStore(warnings), body |-> body, query |-> q]]
             ELSE [raw |-> u.value, warnings |-> warnings, err |-> NilErr]

\* ctx.query: [raw, warnings, err]
query(q, resp) ==
    LET rq == RawQuery(q, resp)
    IN  IF rq.err # NilErr
        THEN [raw |-> GoNil, warnings |-> NoWarnings, err |-> rq.err]
        ELSE classify(q, rq.body)

\* ctx.queryRange: [raw, warnings, err]
queryRange(q, resp) ==
    LET rq == RawQueryRange(q, resp)
    IN  IF rq.err # NilErr
        THEN [raw |-> GoNil, warnings |-> NoWarnings, err |-> rq.err]
        ELSE classify(q, rq.body)

(* NewQueryResults, the result decoder: ordered results or an error.  It    *)
(* reports an error for a payload that is nil or holds no data.             *)
NewQueryResults(q, raw) ==
    IF raw.type = "map[string]interface{}" /\ "data" \in DOMAIN raw.v
    THEN [Query |-> q, Results |-> [type |-> "[]*QueryResult", from |-> raw.v["data"]], Error |-> NilErr]
    ELSE [Query |-> q, Results |-> GoNil, Error |-> [kind |-> "decoder", query |-> q]]

(* QueryErrorCollector.Report: one warning record per warning string, one   *)
(* error record when the request error or the parse error is not nil.       *)
Report(ec, q, warnings, requestError, parseError) ==
    [warnings |-> ec.warnings \o [i \in DOMAIN warnings |-> [Query |-> q, Warning |-> warnings[i]]],
     errors |-> IF requestError # NilErr \/ parseError # NilErr
                THEN Append(ec.errors, [Query |-> q, Error |-> requestError, ParseError |-> parseError])
                ELSE ec.errors]

QuerySyncRetEmptySlice(q, resp) ==
    LET qr == query(q, resp)
        results == NewQueryResults(q, qr.raw)
    IN  IF qr.err # NilErr
        THEN [results |-> [type |-> "[]*QueryResult", from |-> GoNil], warnings |-> qr.warnings, err |-> qr.err]
        ELSE IF results.Error # NilErr
             THEN [results |-> [type |-> "[]*QueryResult", from |-> GoNil], warnings |-> qr.warnings, err |-> results.Error]
             ELSE [results |-> results.Results, warnings |-> qr.warnings, err |-> NilErr]

\* QuerySync's return: [results, warnings, err]
QuerySyncRet(q, resp) ==
    LET qr == query(q, resp)
        results == NewQueryResults(q, qr.raw)
    IN  IF qr.err # NilErr
        THEN [results |-> GoNil, warnings |-> qr.warnings, err |-> qr.err]
        ELSE IF results.Error # NilErr
             THEN [results |-> GoNil, warnings |-> qr.warnings, err |-> results.Error]
             ELSE [results |-> results.Results, warnings |-> qr.warnings, err |-> NilErr]

\* QueryRangeSync's return: [results, warnings, err]
QueryRangeSyncRet(q, resp) ==
    LET qr == queryRange(q, resp)
        results == NewQueryResults(q, qr.raw)
    IN  IF qr.err # NilErr
        THEN [results |-> GoNil, warnings |-> qr.warnings, err |-> qr.err]
        ELSE IF results.Error # NilErr
             THEN [results |-> GoNil, warnings |-> qr.warnings, err |-> results.Error]
             ELSE [results |-> results.Results, warnings |-> qr.warnings, err |-> NilErr]

----------------------------------------------------------------------------
(* The Context: asynchronous entry points *)

None == [kind |-> "none"]

\* make(QueryResultsChan): nothing received, not closed
NewChan == [recv |-> <<>>, closed |-> FALSE]

\* the goroutine `go runQuery(query, ctx, resCh, profileLabel)` starts, before it has run
Unit(q, range, profileLabel, resCh) ==
    [query |-> q, range |-> range, profileLabel |-> profileLabel, resCh |-> resCh, pc |-> "start", resp |-> None, results |-> None]

NoBatch == [called |-> FALSE, queries |-> <<>>, resChs |-> <<>>]

EmptyCollector == [warnings |-> <<>>, errors |-> <<>>]

\* the argument lists of QueryAll that fit the bound
QueryLists == UNION {[1..n -> Queries] : n \in 0..(MaxUnits - Len(units))}

Spawn(q, range, profileLabel) ==
    /\ Len(units) < MaxUnits
    /\ chans' = Append(chans, NewChan)
    /\ units' = Append(units, Unit(q, range, profileLabel, Len(chans) + 1))
    /\ UNCHANGED <<batch, errorCollector, syncRets, retryVars, requestVars>>

Query(q) == Spawn(q, FALSE, "")

ProfileQuery(q, profileLabel) == Spawn(q, FALSE, profileLabel)

QueryRange(q) == Spawn(q, TRUE, "")

ProfileQueryRange(q, profileLabel) == Spawn(q, TRUE, profileLabel)

\* resChs after the loop of QueryAll: the i-th append is the channel the i-th Query made
QueryAllHandles(base, n) == [i \in 1..n |-> base + i]

QueryAll(qs) ==
    /\ Len(units) + Len(qs) <= MaxUnits
    /\ chans' = chans \o [i \in 1..Len(qs) |-> NewChan]
    /\ units' = units \o [i \in 1..Len(qs) |-> Unit(qs[i], FALSE, "", Len(chans) + i)]
    /\ batch' = [called |-> TRUE, queries |-> qs, resChs |-> QueryAllHandles(Len(chans), Len(qs))]
    /\ UNCHANGED <<errorCollector, syncRets, retryVars, requestVars>>

ProfileQueryAll(qs) ==
    /\ Len(units) + Len(qs) <= MaxUnits
    /\ chans' = chans \o [i \in 1..Len(qs) |-> NewChan]
    /\ units' = units \o [i \in 1..Len(qs) |-> Unit(qs[i], FALSE, "Query #" \o ToString(i), Len(chans) + i)]
    /\ batch' = [called |-> TRUE, queries |-> qs, resChs |-> QueryAllHandles(Len(chans), Len(qs))]
    /\ UNCHANGED <<errorCollector, syncRets, retryVars, requestVars>>

(* runQuery / runQueryRange from the first line to the blocking send      *)
(* (lines 159-169, 290-300): the query, the decoder, the report to the      *)
(* collector, the profile log.  Of the locals only results and resCh are    *)
(* read afterwards; resp is kept as the record of what the backend said.    *)
RunBody(u, resp, qr) ==
    LET results == NewQueryResults(units[u].query, qr.raw)
    IN  /\ errorCollector' = Report(errorCollector, units[u].query, qr.warnings, qr.err, results.Error)
        /\ units' = [units EXCEPT ![u] = [query |-> @.query, range |-> FALSE, profileLabel |-> "", resCh |-> @.resCh, pc |-> "send", resp |-> resp, results |-> results]]
        /\ UNCHANGED <<chans, batch, syncRets, retryVars, requestVars>>

runQuery(u) ==
    /\ units[u].pc = "start"
    /\ ~units[u].range
    /\ \E resp \in UnitResponses : RunBody(u, resp, query(units[u].query, resp))

runQueryRange(u) ==
    /\ units[u].pc = "start"
    /\ units[u].range
    /\ \E resp \in UnitResponses : RunBody(u, resp, queryRange(units[u].query, resp))

\* the unit after a panic: the function is abandoned, its locals are gone
Recovered(unit) == [query |-> unit.query, range |-> FALSE, profileLabel |-> "", resCh |-> unit.resCh, pc |-> "recovered", resp |-> None, results |-> None]

(* A panic inside the unit before the Report (in ctx.query or in the        *)
(* decoder): the function is abandoned where it is and the deferred         *)
(* errors.HandlePanic() runs, which has no access to resCh.                 *)
PanicBeforeReport(u) ==
    /\ units[u].pc = "start"
    /\ units' = [units EXCEPT ![u] = Recovered(@)]
    /\ UNCHANGED <<chans, batch, errorCollector, syncRets, retryVars, requestVars>>

(* A panic inside the unit after the Report (in log.Profile): as above,     *)
(* with the query reported.                                                 *)
PanicAfterReport(u) ==
    /\ units[u].pc = "start"
    /\ \E resp \in UnitResponses :
          LET qr == IF units[u].range THEN queryRange(units[u].query, resp) ELSE query(units[u].query, resp)
          IN  errorCollector' = Report(errorCollector, units[u].query, qr.warnings, qr.err, NewQueryResults(units[u].query, qr.raw).Error)
    /\ units' = [units EXCEPT ![u] = Recovered(@)]
    /\ UNCHANGED <<chans, batch, syncRets, retryVars, requestVars>>

SendChanOther(u) == IF units[u].resCh < Len(chans) THEN units[u].resCh + 1 ELSE 1

\* the channel of `resCh <- results`
SendChan(u) == units[u].resCh

(* The send `resCh <- results` of unit u (lines 171, 302) meeting the       *)
(* consumer's receive on channel c; the consumer closes c after receipt.    *)
Await(c) ==
    /\ ~chans[c].closed
    /\ \E u \in DOMAIN units :
          /\ units[u].pc = "send"
          /\ SendChan(u) = c
          /\ chans' = [chans EXCEPT ![c] = [recv |-> Append(@.recv, units[u].results), closed |-> TRUE]]
          /\ units' = [units EXCEPT ![u].pc = "done"]
    /\ UNCHANGED <<batch, errorCollector, syncRets, retryVars, requestVars>>

----------------------------------------------------------------------------
(* The Context: synchronous entry points *)

QuerySync(q) ==
    /\ Len(syncRets) < MaxSync
    /\ \E resp \in Responses :
          syncRets' = Append(syncRets, [query |-> q, range |-> FALSE, resp |-> resp, ret |-> QuerySyncRet(q, resp)])
    /\ UNCHANGED <<units, chans, batch, errorCollector, retryVars, requestVars>>

QueryRangeSync(q) ==
    /\ Len(syncRets) < MaxSync
    /\ \E resp \in Responses :
          syncRets' = Append(syncRets, [query |-> q, range |-> TRUE, resp |-> resp, ret |-> QueryRangeSyncRet(q, resp)])
    /\ UNCHANGED <<units, chans, batch, errorCollector, retryVars, requestVars>>

\* Warnings(), Errors(), HasWarnings(), HasErrors(), ErrorCollection()
Warnings == errorCollector.warnings

Errors == errorCollector.errors

\* QueryErrorCollector.IsWarning, IsError: non-empty checks
IsWarning(ec) == Len(ec.warnings) > 0

IsError(ec) == Len(ec.errors) > 0

HasWarnings == IsWarning(errorCollector)

HasErrors == IsError(errorCollector)

ErrorCollectionOfWarnings == IF IsWarning(errorCollector) THEN [kind |-> "QueryErrorCollector"] ELSE NilErr

\* ErrorCollection: the collector itself as the error if it holds errors, else nil
ErrorCollection == IF IsError(errorCollector) THEN [kind |-> "QueryErrorCollector"] ELSE NilErr

----------------------------------------------------------------------------
(* Retry *)

MaxDuration == 2 ^ (DurationBits - 1) - 1

MinDuration == -(2 ^ (DurationBits - 1))

\* two's-complement wrap-around of the signed addition of durations
Wrap(x) == ((x - MinDuration) % (2 ^ DurationBits)) + MinDuration

\* the delay arguments Retry is called with
Delays == {-1, 0, 1, 2, 5, MaxDuration}

\* RetryCancellationErr, fmt.Errorf("RetryCancellationErr")
RetryCancellationErr == [kind |-> "Errorf", format |-> "RetryCancellationErr"]

\* err != nil && err.Error() == "RetryCancellationErr"
IsRetryCancelledError(e) == e # NilErr /\ "format" \in DOMAIN e /\ e.format = "RetryCancellationErr"

\* what one invocation of f may do: succeed, fail with a nil result, fail with a result
FKinds == {"ok", "fail", "failPartial"}

\* the pair the i-th invocation of f returns
f(i) ==
    CASE fPlan[i] = "ok" -> [result |-> [type |-> "value", call |-> i], err |-> NilErr]
      [] fPlan[i] = "fail" -> [result |-> GoNil, err |-> [kind |-> "f", call |-> i]]
      [] fPlan[i] = "failPartial" -> [result |-> [type |-> "partial", call |-> i], err |-> [kind |-> "f", call |-> i]]

RetryDone == rpc \in {"returned", "panicked"}

\* the cancellation signal is raised while Retry runs
Cancel ==
    /\ ~RetryDone
    /\ ~cancelled
    /\ cancelled' = TRUE
    /\ UNCHANGED <<queryVars, requestVars, rpc, attempts, delay, fPlan, cancelledAtCall, r, d, result, err, ret, calls, sleeps>>

LoopExitWithError ==
    /\ rpc = "loop"
    /\ r = 0
    /\ rpc' = "returned"
    /\ ret' = [result |-> result, err |-> IF calls = 0 THEN [kind |-> "New", text |-> "no attempts"] ELSE err]
    /\ UNCHANGED <<queryVars, requestVars, attempts, delay, fPlan, cancelled, cancelledAtCall, r, d, result, err, calls, sleeps>>

\* the loop condition r > 0 fails: return result, err
LoopExit ==
    /\ rpc = "loop"
    /\ ~(r > 0)
    /\ rpc' = "returned"
    /\ ret' = [result |-> result, err |-> err]
    /\ UNCHANGED <<queryVars, requestVars, attempts, delay, fPlan, cancelled, cancelledAtCall, r, d, result, err, calls, sleeps>>

CancelledKeepsResult ==
    /\ rpc = "loop"
    /\ r > 0
    /\ cancelled
    /\ rpc' = "returned"
    /\ ret' = [result |-> result, err |-> RetryCancellationErr]
    /\ UNCHANGED <<queryVars, requestVars, attempts, delay, fPlan, cancelled, cancelledAtCall, r, d, result, err, calls, sleeps>>

\* the select finds ctx.Done() closed: return nil, RetryCancellationErr
Cancelled ==
    /\ rpc = "loop"
    /\ r > 0
    /\ cancelled
    /\ rpc' = "returned"
    /\ ret' = [result |-> GoNil, err |-> RetryCancellationErr]
    /\ UNCHANGED <<queryVars, requestVars, attempts, delay, fPlan, cancelled, cancelledAtCall, r, d, result, err, calls, sleeps>>

AttemptWithoutSelect ==
    /\ rpc = "loop"
    /\ r > 0
    /\ calls' = calls + 1
    /\ result' = f(calls + 1).result
    /\ err' = f(calls + 1).err
    /\ IF f(calls + 1).err = NilErr
       THEN rpc' = "returned" /\ ret' = f(calls + 1)
       ELSE rpc' = "sleep" /\ ret' = ret
    /\ UNCHANGED <<queryVars, requestVars, attempts, delay, fPlan, cancelled, cancelledAtCall, r, d, sleeps>>

AttemptNoFinalSleep ==
    /\ rpc = "loop"
    /\ r > 0
    /\ ~cancelled
    /\ calls' = calls + 1
    /\ result' = f(calls + 1).result
    /\ err' = f(calls + 1).err
    /\ IF f(calls + 1).err = NilErr \/ r = 1
       THEN rpc' = "returned" /\ ret' = f(calls + 1)
       ELSE rpc' = "sleep" /\ ret' = ret
    /\ UNCHANGED <<queryVars, requestVars, attempts, delay, fPlan, cancelled, cancelledAtCall, r, d, sleeps>>

\* the select takes its default case; f is invoked; a nil error breaks out of the loop
Attempt ==
    /\ rpc = "loop"
    /\ r > 0
    /\ ~cancelled
    /\ calls' = calls + 1
    /\ result' = f(calls + 1).result
    /\ err' = f(calls + 1).err
    /\ IF f(calls + 1).err = NilErr
       THEN rpc' = "returned" /\ ret' = f(calls + 1)
       ELSE rpc' = "sleep" /\ ret' = ret
    /\ UNCHANGED <<queryVars, requestVars, attempts, delay, fPlan, cancelled, cancelledAtCall, r, d, sleeps>>

(* time.Sleep(d) returns, then rand.Int63n(int64(d)), which panics unless   *)
(* d > 0, then d = d + jitter/2 and r--.                                    *)
Sleep ==
    /\ rpc = "sleep"
    /\ sleeps' = Append(sleeps, d)
    /\ IF d <= 0
       THEN rpc' = "panicked" /\ UNCHANGED <<r, d>>
       ELSE /\ \E jitter \in 0..(d - 1) : d' = Wrap(d + jitter \div 2)
            /\ r' = r - 1
            /\ rpc' = "loop"
    /\ UNCHANGED <<queryVars, requestVars, attempts, delay, fPlan, cancelled, cancelledAtCall, result, err, ret, calls>>

\* the time spent in time.Sleep: a duration <= 0 returns at once
RECURSIVE Elapsed(_)
Elapsed(ds) == IF ds = <<>> THEN 0 ELSE (IF Head(ds) > 0 THEN Head(ds) ELSE 0) + Elapsed(Tail(ds))

RECURSIVE Sum(_)
Sum(ds) == IF ds = <<>> THEN 0 ELSE Head(ds) + Sum(Tail(ds))

----------------------------------------------------------------------------
(* Request construction: RawQuery and RawQueryRange up to http.NewRequest *)

\* the name of the allocation Context, a constant of package prom
AllocationContextName == "allocation"

\* the names a Context is made with: NewContext's "", the allocation name, another one
Names == {"", AllocationContextName, "ComputeCostData"}

\* values of promQueryOffset, in ticks: unset, half a second, whole seconds, negative
Offsets == {0, 1, 2, 4, -2}

\* the clock readings a behaviour starts at
StartTimes == {4, 5}

\* the start and end arguments of RawQueryRange, in ticks
RangeStarts == {1, 2}

RangeEnds == {3}

\* the step argument of RawQueryRange, in ticks
Steps == {3}

\* t.Format(time.RFC3339): whole seconds, the fraction is dropped
FormatRFC3339(t) == [layout |-> "RFC3339", sec |-> t \div TicksPerSecond]

\* t.Format(time.RFC3339Nano): seconds and the fraction of a second
FormatRFC3339Nano(t) == [layout |-> "RFC3339Nano", sec |-> t \div TicksPerSecond, frac |-> t % TicksPerSecond]

\* strconv.FormatFloat(step.Seconds(), 'f', 3, 64): seconds with three decimals
FormatStep(step) == [sec |-> step \div TicksPerSecond, milli |-> ((step % TicksPerSecond) * 1000) \div TicksPerSecond]

RawQueryParamsIgnoringName(q, t) ==
    IF promQueryOffset # 0
    THEN [query |-> q, time |-> FormatRFC3339(t - promQueryOffset)]
    ELSE [query |-> q, time |-> FormatRFC3339(t)]

\* the parameters RawQuery sets, t being time.Now()
RawQueryParams(q, t) ==
    IF promQueryOffset # 0 /\ name # AllocationContextName
    THEN [query |-> q, time |-> FormatRFC3339(t - promQueryOffset)]
    ELSE [query |-> q, time |-> FormatRFC3339(t)]

\* the parameters RawQueryRange sets
RawQueryRangeParams(q, start, end, step) ==
    [query |-> q, start |-> FormatRFC3339Nano(start), end |-> FormatRFC3339Nano(end), step |-> FormatStep(step)]

\* SetName when the name is not empty
RequestName == IF name # "" THEN name ELSE None

\* the responses the direct calls are given: no request could be built, a plain success
RequestResponses == {[kind |-> "build"], [kind |-> "http", status |-> 200, body |-> BodyPlain]}

\* the clock advances
Tick ==
    /\ now < MaxNow
    /\ now' = now + 1
    /\ UNCHANGED <<queryVars, retryVars, name, promQueryOffset, requests>>

\* a caller invokes ctx.RawQuery(q)
CallRawQuery(q) ==
    /\ Len(requests) < MaxRequests
    /\ \E resp \in RequestResponses :
          requests' = Append(requests,
              [endpoint |-> "/api/v1/query", at |-> now, args |-> <<q>>,
               params |-> RawQueryParams(q, now), name |-> RequestName,
               sent |-> resp.kind # "build", ret |-> RawQuery(q, resp)])
    /\ UNCHANGED <<queryVars, retryVars, name, promQueryOffset, now>>

\* a caller invokes ctx.RawQueryRange(q, start, end, step)
CallRawQueryRange(q, start, end, step) ==
    /\ Len(requests) < MaxRequests
    /\ \E resp \in RequestResponses :
          requests' = Append(requests,
              [endpoint |-> "/api/v1/query_range", at |-> now, args |-> <<q, start, end, step>>,
               params |-> RawQueryRangeParams(q, start, end, step), name |-> RequestName,
               sent |-> resp.kind # "build", ret |-> RawQueryRange(q, resp)])
    /\ UNCHANGED <<queryVars, retryVars, name, promQueryOffset, now>>

----------------------------------------------------------------------------
(* Specifications *)

\* NewContext: an empty collector, nothing started
InitContext ==
    /\ units = <<>>
    /\ chans = <<>>
    /\ batch = NoBatch
    /\ errorCollector = EmptyCollector
    /\ syncRets = <<>>

\* no Retry in progress
RetryIdle ==
    /\ rpc = "idle"
    /\ attempts = 0
    /\ delay = 0
    /\ fPlan = <<>>
    /\ cancelled = FALSE
    /\ cancelledAtCall = FALSE
    /\ r = 0
    /\ d = 0
    /\ result = GoNil
    /\ err = NilErr
    /\ ret = None
    /\ calls = 0
    /\ sleeps = <<>>

\* Retry is entered: var result, err; d := delay; r := attempts
InitRetry ==
    /\ rpc = "loop"
    /\ attempts \in 0..MaxAttempts
    /\ delay \in Delays
    /\ fPlan \in [1..MaxAttempts -> FKinds]
    /\ cancelled \in BOOLEAN
    /\ cancelledAtCall = cancelled
    /\ r = attempts
    /\ d = delay
    /\ result = GoNil
    /\ err = NilErr
    /\ ret = None
    /\ calls = 0
    /\ sleeps = <<>>

\* NewContext with an unset offset; no direct call of RawQuery / RawQueryRange
RequestIdle ==
    /\ name = ""
    /\ promQueryOffset = 0
    /\ now = 0
    /\ requests = <<>>

\* NewNamedContext, the offset read from the environment at startup
InitRequest ==
    /\ name \in Names
    /\ promQueryOffset \in Offsets
    /\ now \in StartTimes
    /\ requests = <<>>

Init == InitContext /\ RetryIdle /\ RequestIdle

Next ==
    \/ \E q \in Queries : Query(q)
    \/ \E q \in Queries, l \in Labels : ProfileQuery(q, l)
    \/ \E q \in Queries : QueryRange(q)
    \/ \E q \in Queries, l \in Labels : ProfileQueryRange(q, l)
    \/ \E qs \in QueryLists : QueryAll(qs)
    \/ \E qs \in QueryLists : ProfileQueryAll(qs)
    \/ \E u \in DOMAIN units : runQuery(u)
    \/ \E u \in DOMAIN units : runQueryRange(u)
    \/ \E u \in DOMAIN units : PanicBeforeReport(u)
    \/ \E u \in DOMAIN units : PanicAfterReport(u)
    \/ \E c \in DOMAIN chans : Await(c)

Spec == Init /\ [][Next]_vars

NextSync ==
    \/ \E q \in Queries : QuerySync(q)
    \/ \E q \in Queries : QueryRangeSync(q)

SpecSync == Init /\ [][NextSync]_vars

InitR == InitContext /\ InitRetry /\ RequestIdle

NextRetry ==
    \/ Cancel
    \/ LoopExit
    \/ Cancelled
    \/ Attempt
    \/ Sleep

SpecRetry == InitR /\ [][NextRetry]_vars

InitQ == InitContext /\ RetryIdle /\ InitRequest

NextRequest ==
    \/ Tick
    \/ \E q \in Queries : CallRawQuery(q)
    \/ \E q \in Queries, start \in RangeStarts, end \in RangeEnds, step \in Steps : CallRawQueryRange(q, start, end, step)

SpecRequest == InitQ /\ [][NextRequest]_vars

----------------------------------------------------------------------------
(* Properties *)

\* the unit started with channel c (Spawn appends one unit and one channel together)
UnitOf(c) == units[c]

\* the unit has ended: it has sent, or it panicked and HandlePanic ran
Ended(unit) == unit.pc \in {"done", "recovered"}

\* the warning strings of a response, as the backend wrote them
BodyWarnings(resp) ==
    IF resp.kind = "http" /\ resp.status >= 200 /\ resp.status < 300 /\ resp.body.j = "object"
    THEN IF "warnings" \in DOMAIN resp.body.members /\ resp.body.members["warnings"].j = "array"
         THEN [i \in DOMAIN resp.body.members["warnings"].items |-> resp.body.members["warnings"].items[i].s]
         ELSE <<>>
    ELSE <<>>

HasStoreWarningText(resp) == \E i \in DOMAIN BodyWarnings(resp) : IsNoStoreAPIWarning(BodyWarnings(resp)[i])

RECURSIVE TotalWarnings(_)
TotalWarnings(us) == IF us = <<>> THEN 0 ELSE Len(BodyWarnings(Head(us).resp)) + TotalWarnings(Tail(us))

(* C1: a unit in which a panic occurred before its send still delivers a    *)
(* result on its own handle: no unit ends without its handle having         *)
(* received a message.                                                      *)
C1_FaultStillDelivers ==
    \A u \in DOMAIN units : units[u].pc = "recovered" => Len(chans[units[u].resCh].recv) >= 1

(* C2: a 2xx response whose decoded body carries the store-partial-failure  *)
(* warning text makes QuerySync / QueryRangeSync return a non-nil error and *)
(* nil results.                                                             *)
C2_StoreWarningIsError ==
    \A i \in DOMAIN syncRets :
        HasStoreWarningText(syncRets[i].resp) => (syncRets[i].ret.err # NilErr /\ syncRets[i].ret.results = GoNil)

\* the outcomes delivered so far: the synchronous returns and the messages received
DeliveredErrors ==
    Cardinality({i \in DOMAIN syncRets : syncRets[i].ret.err # NilErr})
    + Cardinality({u \in DOMAIN units : units[u].pc = "done" /\ units[u].results.Error # NilErr})

(* C3: once a call, synchronous or asynchronous, has delivered its outcome  *)
(* the collector holds that query's error and its warnings: it holds at     *)
(* least one error per delivered error and one warning per warning string   *)
(* of a delivered response.                                                 *)
C3_DualPath ==
    /\ Len(Errors) >= DeliveredErrors
    /\ \A i \in DOMAIN syncRets :
          \A k \in DOMAIN BodyWarnings(syncRets[i].resp) :
              \E w \in DOMAIN Warnings : Warnings[w] = [Query |-> syncRets[i].query, Warning |-> BodyWarnings(syncRets[i].resp)[k]]
    /\ \A u \in DOMAIN units :
          units[u].pc = "done" =>
              \A k \in DOMAIN BodyWarnings(units[u].resp) :
                  \E w \in DOMAIN Warnings : Warnings[w] = [Query |-> units[u].query, Warning |-> BodyWarnings(units[u].resp)[k]]

\* the Context has run one QueryAll batch and nothing else, and every handle has been received
BatchReceived ==
    /\ batch.called
    /\ Len(units) = Len(batch.queries)
    /\ \A i \in DOMAIN batch.resChs : Len(chans[batch.resChs[i]].recv) = 1

(* C4: once all N handles of a QueryAll batch have been received, Errors()  *)
(* holds one record per query that produced an error and Warnings() one     *)
(* record per warning string of the N responses.                            *)
C4_NoLossNoOverCount ==
    BatchReceived =>
        /\ Len(Errors) = Cardinality({u \in DOMAIN units : units[u].results.Error # NilErr})
        /\ Len(Warnings) = TotalWarnings(units)

(* C5: QueryAll / ProfileQueryAll return one handle per query, and whatever *)
(* is received on handle i is the outcome of the unit started for query i:  *)
(* it carries query i's text and is that unit's result, at most once.       *)
C5_HandlesMatchQueries ==
    batch.called =>
        /\ Len(batch.resChs) = Len(batch.queries)
        /\ \A i \in DOMAIN batch.resChs :
              /\ batch.resChs[i] \in DOMAIN chans
              /\ \A k \in DOMAIN batch.resChs : k # i => batch.resChs[k] # batch.resChs[i]
              /\ Len(chans[batch.resChs[i]].recv) <= 1
              /\ \A k \in DOMAIN chans[batch.resChs[i]].recv :
                    /\ chans[batch.resChs[i]].recv[k].Query = batch.queries[i]
                    /\ UnitOf(batch.resChs[i]).query = batch.queries[i]
                    /\ chans[batch.resChs[i]].recv[k] = UnitOf(batch.resChs[i]).results

\* a batch of two different queries whose second handle was received before the first unit ran
C5_Witness ==
    /\ batch.called
    /\ Len(batch.queries) = 2
    /\ batch.queries[1] # batch.queries[2]
    /\ Len(chans[batch.resChs[2]].recv) = 1
    /\ UnitOf(batch.resChs[1]).pc = "start"

(* C6: QuerySync and QueryRangeSync never return non-nil results together   *)
(* with a non-nil error.                                                    *)
C6_ResultsXorError ==
    \A i \in DOMAIN syncRets : ~(syncRets[i].ret.results # GoNil /\ syncRets[i].ret.err # NilErr)

\* both kinds of return have happened: an instant call returned an error, a range call results
C6_Witness ==
    \E i, k \in DOMAIN syncRets :
        /\ ~syncRets[i].range /\ syncRets[i].ret.err # NilErr /\ syncRets[i].ret.results = GoNil
        /\ syncRets[k].range /\ syncRets[k].ret.err = NilErr /\ syncRets[k].ret.results # GoNil

(* C7 as stated: with the cancellation signal set when Retry is called, f   *)
(* is never invoked and Retry returns the cancellation error, for any       *)
(* number of attempts.                                                      *)
C7_Original ==
    cancelledAtCall =>
        /\ calls = 0
        /\ rpc = "returned" => IsRetryCancelledError(ret.err)

(* C7 amended: with the cancellation signal set when Retry is called, f is  *)
(* never invoked; Retry returns the cancellation error when attempts >= 1   *)
(* and (nil, nil) when attempts = 0.                                        *)
C7_CancelledBeforeFirstAttempt ==
    cancelledAtCall =>
        /\ calls = 0
        /\ rpc # "panicked"
        /\ (rpc = "returned" /\ attempts >= 1) => (IsRetryCancelledError(ret.err) /\ ret.result = GoNil)
        /\ (rpc = "returned" /\ attempts = 0) => ret = [result |-> GoNil, err |-> NilErr]

\* Retry has returned from a call with attempts >= 1 made after the cancellation
C7_Witness == cancelledAtCall /\ rpc = "returned" /\ attempts >= 1 /\ fPlan[1] = "ok"

\* f fails on its first k - 1 invocations and succeeds on the k-th
SucceedsAt(k) == fPlan[k] = "ok" /\ \A i \in 1..(k - 1) : fPlan[i] # "ok"

(* C8: when f fails on attempts 1..k-1 and succeeds on attempt k <=         *)
(* attempts, with no cancellation, Retry returns f's success value with a   *)
(* nil error after exactly k invocations, having slept k-1 delays, each >=  *)
(* its predecessor, for at least their sum.                                 *)
C8_SucceedsOnAttemptK ==
    \A k \in 1..MaxAttempts :
        (delay >= 0 /\ k <= attempts /\ SucceedsAt(k) /\ ~cancelled /\ RetryDone) =>
            /\ rpc = "returned"
            /\ ret = f(k)
            /\ calls = k
            /\ Len(sleeps) = k - 1
            /\ \A i \in 1..(Len(sleeps) - 1) : sleeps[i] <= sleeps[i + 1]
            /\ Elapsed(sleeps) >= Sum(sleeps)

(* C9: when f fails on all of its attempts >= 1 attempts and no             *)
(* cancellation is observed, f is invoked exactly attempts times and Retry  *)
(* returns the pair the last invocation produced.                           *)
C9_ExhaustedReturnsLastPair ==
    (delay >= 0 /\ attempts >= 1 /\ (\A i \in 1..attempts : fPlan[i] # "ok") /\ ~cancelled /\ RetryDone) =>
        /\ rpc = "returned"
        /\ calls = attempts
        /\ ret = f(attempts)

(* C10: every handle is written exactly once: at most one message ever, by  *)
(* the unit it was made for, exactly one once that unit has ended, and      *)
(* closed only by the consumer after the receipt.                           *)
C10_WrittenExactlyOnce ==
    \A c \in DOMAIN chans :
        /\ Len(chans[c].recv) <= 1
        /\ \A k \in DOMAIN chans[c].recv : chans[c].recv[k].Query = UnitOf(c).query
        /\ Ended(UnitOf(c)) => Len(chans[c].recv) = 1
        /\ chans[c].closed => Len(chans[c].recv) = 1


(* C11: the collector only accumulates: no step of the Context lowers the   *)
(* number of recorded errors or warnings, and ErrorCollection() is non-nil  *)
(* exactly when an error has been recorded, that is when HasErrors() holds. *)
C11_OnlyAccumulates ==
    [][/\ Len(Errors') >= Len(Errors)
       /\ Len(Warnings') >= Len(Warnings)
       /\ (ErrorCollection' # NilErr) <=> (Len(errorCollector'.errors) >= 1)
       /\ (ErrorCollection' # NilErr) <=> HasErrors'
       /\ (ErrorCollection # NilErr) => (ErrorCollection' # NilErr)]_vars

\* two failing queries have been recorded, one of them already received
C11_Witness ==
    /\ Len(Errors) = 2
    /\ ErrorCollection # NilErr
    /\ \E u \in DOMAIN units : units[u].pc = "done" /\ units[u].results.Error # NilErr


(* C12: the cancellation signal is checked before every attempt: from an    *)
(* attempt boundary (an attempt is left, r > 0) at which the signal is set  *)
(* Retry returns (nil, cancellation error) without invoking f and without   *)
(* sleeping, whatever f returned before; a signal set during a sleep does   *)
(* not end the sleep; f is never invoked while the signal is set.           *)
C12_CancelCheckedAtBoundary ==
    [][/\ (rpc = "loop" /\ r > 0 /\ cancelled) =>
              /\ rpc' = "returned"
              /\ ret' = [result |-> GoNil, err |-> RetryCancellationErr]
              /\ IsRetryCancelledError(ret'.err)
              /\ calls' = calls
              /\ sleeps' = sleeps
       /\ (rpc = "sleep" /\ cancelled) => (rpc' \in {"loop", "panicked"} /\ Len(sleeps') = Len(sleeps) + 1)
       /\ (calls' # calls) => ~cancelled]_vars

\* cancelled during the sleep after a failed attempt that had returned a result: that result is dropped
C12_Witness ==
    /\ ~cancelledAtCall
    /\ rpc = "returned"
    /\ IsRetryCancelledError(ret.err)
    /\ ret.result = GoNil
    /\ result # GoNil
    /\ calls = 1
    /\ Len(sleeps) = 1


\* the request could not be built, Do failed, or the status is not 2xx
TransportFailure(resp) == resp.kind \in {"build", "net", "netresp"} \/ (resp.kind = "http" /\ (resp.status < 200 \/ resp.status >= 300))

\* the error was made with the query text q as one of its arguments
CarriesQuery(e, q) == "query" \in DOMAIN e /\ e.query = q

(* C13: every transport error of RawQuery / RawQueryRange (request build    *)
(* failure, network failure with or without a response, non-2xx status)     *)
(* carries the original query text.                                         *)
C13_TransportErrorCarriesQuery ==
    \A i \in DOMAIN syncRets :
        TransportFailure(syncRets[i].resp) =>
            /\ syncRets[i].ret.err = (IF syncRets[i].range THEN RawQueryRange(syncRets[i].query, syncRets[i].resp).err ELSE RawQuery(syncRets[i].query, syncRets[i].resp).err)
            /\ CarriesQuery(syncRets[i].ret.err, syncRets[i].query)


\* a 2xx response whose body is JSON and carries no store-partial-failure warning
SoftResponse(resp) ==
    /\ resp.kind = "http"
    /\ resp.status >= 200 /\ resp.status < 300
    /\ resp.body.j # "invalid"
    /\ ~HasStoreWarningText(resp)

(* C14: soft warnings never fail the call: for a 2xx response that decodes  *)
(* as JSON and whose warnings hold no store-partial-failure match, the      *)
(* call returns every warning string of the response, in response order,    *)
(* and, when the decoder accepts the payload, non-nil results with a nil    *)
(* error.                                                                   *)
C14_SoftWarningsPassThrough ==
    \A i \in DOMAIN syncRets :
        SoftResponse(syncRets[i].resp) =>
            /\ syncRets[i].ret.warnings = BodyWarnings(syncRets[i].resp)
            /\ NewQueryResults(syncRets[i].query, GoValue(syncRets[i].resp.body)).Error = NilErr =>
                  (syncRets[i].ret.err = NilErr /\ syncRets[i].ret.results # GoNil)


(* C15: the delay never decreases: after each failed attempt the new delay  *)
(* d' satisfies d <= d' < d + d/2, d being the delay just slept, for every  *)
(* initial delay the duration type can hold.                                *)
C15_DelayMonotonic ==
    [][(rpc = "sleep" /\ rpc' = "loop") => (d <= d' /\ 2 * (d' - d) < d)]_vars


\* the offset applies to this Context's instant queries
OffsetApplies == promQueryOffset # 0 /\ name # AllocationContextName

(* C16: RawQuery sets the time parameter to now minus the process-wide      *)
(* offset exactly when the offset is non-zero and the Context's name is not *)
(* the allocation name, and to now otherwise; RawQueryRange never applies   *)
(* the offset to start or end.                                              *)
C16_OffsetOnInstantOnly ==
    \A i \in DOMAIN requests :
        LET rq == requests[i]
        IN  /\ rq.endpoint = "/api/v1/query" =>
                  /\ OffsetApplies => rq.params.time = FormatRFC3339(rq.at - promQueryOffset)
                  /\ ~OffsetApplies => rq.params.time = FormatRFC3339(rq.at)
            /\ rq.endpoint = "/api/v1/query_range" =>
                  /\ rq.params.start = FormatRFC3339Nano(rq.args[2])
                  /\ rq.params.end = FormatRFC3339Nano(rq.args[3])

\* an allocation Context under a whole-second offset has issued an instant query at now and a range query
C16_Witness ==
    /\ name = AllocationContextName
    /\ promQueryOffset >= TicksPerSecond
    /\ \E i \in DOMAIN requests :
          /\ requests[i].endpoint = "/api/v1/query"
          /\ requests[i].params.time = FormatRFC3339(requests[i].at)
          /\ requests[i].params.time # FormatRFC3339(requests[i].at - promQueryOffset)
    /\ \E i \in DOMAIN requests : requests[i].endpoint = "/api/v1/query_range"


(* C17: Retry with attempts = 0 never invokes f, never sleeps, and returns  *)
(* (nil, nil).                                                              *)
C17_ZeroAttempts ==
    (rpc # "idle" /\ attempts = 0) =>
        /\ calls = 0
        /\ sleeps = <<>>
        /\ rpc \in {"loop", "returned"}
        /\ rpc = "returned" => ret = [result |-> GoNil, err |-> NilErr]

\* Retry was called with attempts = 0 and has returned, the context cancelled or not
C17_Witness ==
    /\ attempts = 0
    /\ rpc = "returned"
    /\ ret = [result |-> GoNil, err |-> NilErr]
    /\ cancelled

(* C18: Retry terminates and returns a pair without faulting for every      *)
(* attempts >= 0 and every initial delay >= 0, delay = 0 included.          *)
C18_NoFault ==
    (attempts >= 0 /\ delay >= 0) => rpc # "panicked"


(* C19: the report to the collector happens before the send on the handle:  *)
(* once a consumer has received the result of query q, the collector holds  *)
(* q's error record and a warning record for each warning of q's response,  *)
(* so that after a batch is received Errors() and Warnings() are complete.  *)
C19_ReportBeforeSend ==
    \A u \in DOMAIN units :
        units[u].pc = "done" =>
            /\ units[u].results.Error # NilErr =>
                  \E i \in DOMAIN Errors : Errors[i].Query = units[u].query /\ Errors[i].ParseError = units[u].results.Error
            /\ \A k \in DOMAIN BodyWarnings(units[u].resp) :
                  \E i \in DOMAIN Warnings :
                      Warnings[i].Query = units[u].query /\ Warnings[i].Warning = BodyWarnings(units[u].resp)[k]

\* the invocations of f so far that returned an error
FailedCalls == Cardinality({i \in 1..calls : f(i).err # NilErr})

(* C20: Retry sleeps exactly once after each failed invocation of f and     *)
(* never after a successful one: the number of sleeps equals the number of  *)
(* failed invocations, the sleep after the final failed attempt included.   *)
C20_SleepPerFailure ==
    /\ rpc = "sleep" => (Len(sleeps) = FailedCalls - 1 /\ f(calls).err # NilErr)
    /\ rpc # "sleep" => Len(sleeps) = FailedCalls
    /\ (rpc = "returned" /\ calls > 0 /\ ret = f(calls) /\ ret.err # NilErr) => Len(sleeps) = calls

\* the attempts are exhausted, every one failed, and Retry has returned after as many sleeps
C20_Witness ==
    /\ rpc = "returned"
    /\ attempts >= 2
    /\ calls = attempts
    /\ \A i \in 1..calls : f(i).err # NilErr
    /\ ret.err # NilErr
    /\ ~IsRetryCancelledError(ret.err)
    /\ Len(sleeps) = attempts

====
